---- MODULE Spec2Model ----
(***************************************************************************)
(* The wavelength sweep of the notebook "WL-dependent scattering of       *)
(* DFT-optimized CB systems": the execute-mode loop over lambda0s x       *)
(* crystal_hkls that calls run_on_sample, the replay-mode loop that loads *)
(* the folders of an earlier run with load_data, plot_diffr, and the HKL  *)
(* metadata reader read_hkl.                                              *)
(*                                                                         *)
(* Wavelengths are held in thousandths of an Angstrom (1040 is 1.04), so   *)
(* that the two formats of the code, .1f (folder names) and .2f (progress  *)
(* lines), are roundings and not identities.                               *)
(***************************************************************************)
EXTENDS Integers, Sequences, FiniteSets, TLC

\* ------------------------------------------------------------- bounds

\* Longest wavelength tuple lambda0s.
MaxWavelengths == 2
\* Most entries of crystal_hkls.
MaxSamples == 2
\* Times the notebook is run top to bottom on the same results folder.
MaxRuns == 2
\* The same, in the longer sessions over the few configurations of SessionInit.
MaxSessionRuns == 3

\* Wavelengths the configuration draws from: 1.00, 1.04 and 1.50. None lies
\* on a .1f or .2f rounding tie, where the binary value of the float decides.
WavelengthDomain == {1000, 1040, 1500}
\* Sample identifiers (keys of crystal_hkls, which are distinct), each the
\* sequence of the parts that "_" separates: <<"a">> is "a", and <<"a", 0>>
\* (in SessionInit) is "a_0". Init takes the first 0..MaxSamples of them: the
\* sweep treats an identifier as a label, so another choice is a renaming.
SampleOrder == <<<<"a">>, <<"b">>, <<"c">>>>

\* ------------------------------------------------- notebook configuration

output_folder == "./results"
prefix == "d2b_test"
\* postfix = "": no suffix. A suffix "_n" is held as the number n.
NoSuffix == -1
\* The postfixes a replay is configured with: "" and "_0".
Postfixes == {NoSuffix, 0}

VARIABLES
    lambda0s,        \* the configured wavelength tuple
    crystal_hkls,    \* the keys of crystal_hkls, in insertion order
    run_simulation,  \* TRUE: execute mode, FALSE: replay mode
    postfix,         \* suffix appended to the folder name when loading
    pc,              \* "idle", "outer", "inner", "call", "done", "plotted", "error"
    i, j,            \* positions of the outer and the inner for loop
    results,         \* results[lambda0][crys] = dataset
    disk,            \* the folders under output_folder, each with its dataset
    calls,           \* run_on_sample / load_data calls of this run, in order
    returned,        \* how many of them have returned or raised
    output,          \* what this run has printed, the traceback included
    runs,            \* runs started so far
    execKeys,        \* keys of results at the end of the last completed execute run
    execFailed,      \* whether an execute run has been aborted by an exception
    written,         \* per unsuffixed folder name, the datasets written for it, in order
    created,         \* per folder path, the dataset of the call that created it
    mm,              \* read_hkl: the bytes of the mapped hkl file
    layout,          \* the lines the file was written from: [name, value, style]
    pos,             \* read_hkl: the current position of mm (0-based)
    pmi,             \* read_hkl: position of the for loop in params
    vals,            \* read_hkl: the dict being filled
    hpc,             \* read_hkl: "off", "loop", "returned", "raised"
    ret,             \* read_hkl: <<vals>> once returned, <<>> before
    err              \* read_hkl: the exception raised

sweepVars == <<lambda0s, crystal_hkls, run_simulation, postfix, pc, i, j, results,
               disk, calls, returned, output, runs, execKeys, execFailed, written,
               created>>

hklVars == <<mm, layout, pos, pmi, vals, hpc, ret, err>>

vars == <<sweepVars, hklVars>>

\* ------------------------------------------------------------- helpers

EmptyMap == [x \in {} |-> x]

\* The map m with key k set to v (a dict assignment m[k] = v).
Put(m, k, v) == [x \in DOMAIN m \cup {k} |-> IF x = k THEN v ELSE m[x]]

\* Sequences over S of length 0..n.
SeqsUpTo(S, n) == UNION {[1..k -> S] : k \in 0..n}

Min(a, b) == IF a <= b THEN a ELSE b

\* f"{lambda0:.1f}": the wavelength rounded to tenths.
Format1f(lambda0) == (lambda0 + 50) \div 100

\* f"{lambda0:.2f}": the wavelength rounded to hundredths.
Format2f(lambda0) == (lambda0 + 5) \div 10

\* A folder path <output_folder>/<prefix>_<wl>_<sample><suffix>: tail holds the
\* "_"-separated parts that follow the wavelength, so that the path of sample
\* "a" with suffix "_0" is the path of sample "a_0" with none, as for the strings.
Folder(wl, crys, sfx) ==
    [dir |-> output_folder, prefix |-> prefix, wl |-> wl,
     tail |-> IF sfx = NoSuffix THEN crys ELSE Append(crys, sfx)]

\* foldername = f"{output_folder}/{prefix}_{lambda0:.1f}_{sample_name}"
FolderName(lambda0, sample_name) == Folder(Format1f(lambda0), sample_name, NoSuffix)

\* folder = f"{output_folder}/{prefix}_{lambda0:.1f}_{crys}{postfix}"
\* (faulty variant: the replay formats the wavelength as the progress lines do)
ReplayFolderOtherFormat(lambda0, crys, pfx) == Folder(Format2f(lambda0), crys, pfx)
ReplayFolder(lambda0, crys, pfx) == Folder(Format1f(lambda0), crys, pfx)

\* increment_folder_name=True: the simulator writes to foldername when it does
\* not exist, and otherwise to foldername_<n> for the least n >= 0 that is free.
WithSuffix(name, n) == [name EXCEPT !.tail = Append(@, n)]

FreeSuffix(d, name) ==
    CHOOSE n \in 0..Cardinality(DOMAIN d) :
        /\ WithSuffix(name, n) \notin DOMAIN d
        /\ \A m \in 0..(n - 1) : WithSuffix(name, m) \in DOMAIN d

\* (faulty variant: increment_folder_name left off, the folder is overwritten)
IncrementFolderOverwrite(d, name) == name
IncrementFolder(d, name) ==
    IF name \in DOMAIN d THEN WithSuffix(name, FreeSuffix(d, name)) ELSE name

\* results[lambda0] = {}
ResetWavelength(res, lambda0) == Put(res, lambda0, EmptyMap)

\* results[lambda0][crys] = data
\* (faulty variant: results[lambda0] = {crys: data})
StoreResultAlone(res, lambda0, crys, data) == Put(res, lambda0, Put(EmptyMap, crys, data))
StoreResult(res, lambda0, crys, data) == Put(res, lambda0, Put(res[lambda0], crys, data))

\* The (lambda0, crys) pairs results holds.
Keys(res) == UNION {{<<l, c>> : c \in DOMAIN res[l]} : l \in DOMAIN res}

\* The configured Cartesian product of Sweep Points.
SweepPoints ==
    {<<lambda0s[a], crystal_hkls[b]>> : a \in 1..Len(lambda0s), b \in 1..Len(crystal_hkls)}

\* The next inner position after a sample is done.
\* (faulty variant: every second sample is skipped)
NextSampleSkip(b) == b + 2
NextSample(b) == b + 1

\* Where an exception raised inside the loop body leaves the cell: nothing
\* catches it, the cell ends and no later cell runs.
\* (faulty variant: the exception is swallowed and the inner loop goes on)
UncaughtSwallowed == "inner"
Uncaught == "error"

\* The traceback the notebook shows for an uncaught exception: the failing
\* statement, not the values of its arguments.
Traceback(fn) == [kind |-> "traceback", raised_by |-> fn, shows |-> {}]

\* No exception.
NoError == [type |-> "none", msg |-> "", names |-> {}]

\* ------------------------------------------------------------- the run

\* The dataset a run_on_sample call of this run produces at loop position (i, j).
NewData == [run |-> runs, i |-> i, j |-> j]

\* The state before the first run: a configuration, nothing on disk.
Configure(wavelengths, samples) ==
    /\ lambda0s \in wavelengths
    /\ crystal_hkls \in samples
    /\ run_simulation = TRUE
    /\ postfix = NoSuffix
    /\ pc = "idle"
    /\ i = 1
    /\ j = 1
    /\ results = EmptyMap
    /\ disk = EmptyMap
    /\ calls = <<>>
    /\ returned = 0
    /\ output = <<>>
    /\ runs = 0
    /\ execKeys = <<>>
    /\ execFailed = FALSE
    /\ written = EmptyMap
    /\ created = EmptyMap

\* read_hkl is not running.
HklOff ==
    /\ mm = <<>>
    /\ layout = <<>>
    /\ pos = 0
    /\ pmi = 1
    /\ vals = EmptyMap
    /\ hpc = "off"
    /\ ret = <<>>
    /\ err = NoError

Init ==
    /\ Configure(SeqsUpTo(WavelengthDomain, MaxWavelengths),
                 {SubSeq(SampleOrder, 1, n) : n \in 0..Min(MaxSamples, Len(SampleOrder))})
    /\ HklOff

\* Longer sessions on a few configurations: one wavelength, two that share
\* their .1f format, two that do not; one sample, two of which one is the
\* other followed by "_0" (in both orders), two unrelated ones.
SessionInit ==
    /\ Configure({<<1000>>, <<1000, 1040>>, <<1000, 1500>>},
                 {<<<<"a">>>>, <<<<"a">>, <<"a", 0>>>>, <<<<"a", 0>>, <<"a">>>>,
                  <<<<"a">>, <<"b">>>>})
    /\ HklOff

\* The notebook is run from the top: the setup cell fixes run_simulation and
\* postfix for the whole run (postfix is read in replay mode only), and the
\* sweep cell that applies starts with results = {}.
StartRun(limit) ==
    /\ pc \in {"idle", "plotted", "error"}
    /\ runs < limit
    /\ \E rs \in BOOLEAN, pf \in Postfixes :
        /\ run_simulation' = rs
        /\ postfix' = IF rs THEN NoSuffix ELSE pf
    /\ runs' = runs + 1
    /\ results' = EmptyMap
    /\ i' = 1
    /\ j' = 1
    /\ calls' = <<>>
    /\ returned' = 0
    /\ output' = <<>>
    /\ pc' = "outer"
    /\ UNCHANGED hklVars
    /\ UNCHANGED <<lambda0s, crystal_hkls, disk, execKeys, execFailed, written, created>>

\* for i, lambda0 in enumerate(lambda0s): results[lambda0] = {}
ExecOuter ==
    /\ run_simulation
    /\ pc = "outer"
    /\ IF i > Len(lambda0s)
       THEN /\ pc' = "done"
            /\ execKeys' = <<Keys(results)>>
            /\ UNCHANGED <<results, j>>
       ELSE /\ results' = ResetWavelength(results, lambda0s[i])
            /\ j' = 1
            /\ pc' = "inner"
            /\ UNCHANGED execKeys
    /\ UNCHANGED hklVars
    /\ UNCHANGED <<lambda0s, crystal_hkls, run_simulation, postfix, i, disk, calls,
                   returned, output, runs, execFailed, written, created>>

\* for j, (crys, hkl) in enumerate(crystal_hkls.items()): print(...); the call
\* of run_on_sample starts.
ExecInner ==
    /\ run_simulation
    /\ pc = "inner"
    /\ IF j > Len(crystal_hkls)
       THEN /\ i' = i + 1
            /\ pc' = "outer"
            /\ UNCHANGED <<calls, output>>
       ELSE /\ output' = Append(output,
                [kind |-> "running", crys |-> crystal_hkls[j], j |-> j,
                 nj |-> Len(crystal_hkls), wl |-> Format2f(lambda0s[i]), i |-> i,
                 ni |-> Len(lambda0s)])
            /\ calls' = Append(calls,
                [fn |-> "run_on_sample", lambda0 |-> lambda0s[i], crys |-> crystal_hkls[j]])
            /\ pc' = "call"
            /\ UNCHANGED i
    /\ UNCHANGED hklVars
    /\ UNCHANGED <<lambda0s, crystal_hkls, run_simulation, postfix, j, results, disk,
                   returned, runs, execKeys, execFailed, written, created>>

\* run_on_sample returns: the simulator has written its folder; the loop body
\* stores the dataset and prints the duration.
RunOnSampleReturns ==
    /\ pc = "call"
    /\ LET lambda0 == lambda0s[i]
           crys == crystal_hkls[j]
           foldername == FolderName(lambda0, crys)
           target == IncrementFolder(disk, foldername)
           before == IF foldername \in DOMAIN written THEN written[foldername] ELSE <<>>
       IN  /\ disk' = Put(disk, target, NewData)
           /\ written' = Put(written, foldername, Append(before, NewData))
           /\ created' = IF target \in DOMAIN created THEN created
                          ELSE Put(created, target, NewData)
           /\ results' = StoreResult(results, lambda0, crys, NewData)
           /\ output' = Append(output,
                [kind |-> "finished", crys |-> crys, wl |-> Format2f(lambda0)])
    /\ returned' = returned + 1
    /\ j' = NextSample(j)
    /\ pc' = "inner"
    /\ UNCHANGED hklVars
    /\ UNCHANGED <<lambda0s, crystal_hkls, run_simulation, postfix, i, calls, runs,
                   execKeys, execFailed>>

\* run_on_sample raises before the simulator has written anything (the hkl
\* file cannot be opened or parsed): nothing catches the exception.
RunOnSampleRaises ==
    /\ pc = "call"
    /\ returned' = returned + 1
    /\ output' = Append(output, Traceback("run_on_sample"))
    /\ pc' = Uncaught
    /\ execFailed' = TRUE
    /\ UNCHANGED hklVars
    /\ UNCHANGED <<lambda0s, crystal_hkls, run_simulation, postfix, i, j, results, disk,
                   calls, runs, execKeys, written, created>>

\* for lambda0 in lambda0s: results[lambda0] = {}
ReplayOuter ==
    /\ ~run_simulation
    /\ pc = "outer"
    /\ IF i > Len(lambda0s)
       THEN /\ pc' = "done"
            /\ UNCHANGED <<results, j>>
       ELSE /\ results' = ResetWavelength(results, lambda0s[i])
            /\ j' = 1
            /\ pc' = "inner"
    /\ UNCHANGED hklVars
    /\ UNCHANGED <<lambda0s, crystal_hkls, run_simulation, postfix, i, disk, calls,
                   returned, output, runs, execKeys, execFailed, written, created>>

\* for crys in crystal_hkls.keys(): data = load_data(folder); print(...);
\* results[lambda0][crys] = data. load_data raises when the folder is absent.
ReplayInner ==
    /\ ~run_simulation
    /\ pc = "inner"
    /\ IF j > Len(crystal_hkls)
       THEN /\ i' = i + 1
            /\ pc' = "outer"
            /\ UNCHANGED <<j, results, calls, returned, output>>
       ELSE LET lambda0 == lambda0s[i]
                crys == crystal_hkls[j]
                folder == ReplayFolder(lambda0, crys, postfix)
            IN  /\ calls' = Append(calls,
                        [fn |-> "load_data", lambda0 |-> lambda0, crys |-> crys])
                /\ returned' = returned + 1
                /\ UNCHANGED i
                /\ IF folder \in DOMAIN disk
                   THEN /\ results' = StoreResult(results, lambda0, crys, disk[folder])
                        /\ output' = Append(output,
                             [kind |-> "loaded", crys |-> crys, wl |-> Format2f(lambda0),
                              folder |-> folder])
                        /\ j' = NextSample(j)
                        /\ pc' = "inner"
                   ELSE /\ output' = Append(output, Traceback("load_data"))
                        /\ pc' = Uncaught
                        /\ UNCHANGED <<j, results>>
    /\ UNCHANGED hklVars
    /\ UNCHANGED <<lambda0s, crystal_hkls, run_simulation, postfix, disk, runs,
                   execKeys, execFailed, written, created>>

\* plot_diffr(crystals_to_plot): data = results[lambda0][crys] for every
\* wavelength and every crystal to plot; a missing key raises KeyError.
plot_diffr ==
    /\ pc = "done"
    /\ \E crystals_to_plot \in SUBSET {crystal_hkls[b] : b \in 1..Len(crystal_hkls)} :
        IF \A a \in 1..Len(lambda0s) : \A crys \in crystals_to_plot :
                /\ lambda0s[a] \in DOMAIN results
                /\ crys \in DOMAIN results[lambda0s[a]]
        THEN /\ output' = Append(output, [kind |-> "plot", crystals |-> crystals_to_plot])
             /\ pc' = "plotted"
        ELSE /\ output' = Append(output, Traceback("plot_diffr"))
             /\ pc' = Uncaught
    /\ UNCHANGED hklVars
    /\ UNCHANGED <<lambda0s, crystal_hkls, run_simulation, postfix, i, j, results, disk,
                   calls, returned, runs, execKeys, execFailed, written, created>>

Next ==
    \/ StartRun(MaxRuns)
    \/ ExecOuter
    \/ ExecInner
    \/ RunOnSampleReturns
    \/ RunOnSampleRaises
    \/ ReplayOuter
    \/ ReplayInner
    \/ plot_diffr

Spec == Init /\ [][Next]_vars

SessionNext ==
    \/ StartRun(MaxSessionRuns)
    \/ ExecOuter
    \/ ExecInner
    \/ RunOnSampleReturns
    \/ RunOnSampleRaises
    \/ ReplayOuter
    \/ ReplayInner
    \/ plot_diffr

SpecSession == SessionInit /\ [][SessionNext]_vars

\* ------------------------------------------------------------- read_hkl

\* params of read_hkl, in the order the loop looks them up.
params ==
    <<"sigma_coh", "sigma_inc", "sigma_abs", "density", "weight", "Vc",
      "lattice_a", "lattice_b", "lattice_c", "lattice_aa", "lattice_bb",
      "lattice_cc">>

ParamSet == {params[n] : n \in 1..Len(params)}

\* pm.encode("UTF-8")
Encode(pm) ==
    CASE pm = "sigma_coh" -> <<"s", "i", "g", "m", "a", "_", "c", "o", "h">>
      [] pm = "sigma_inc" -> <<"s", "i", "g", "m", "a", "_", "i", "n", "c">>
      [] pm = "sigma_abs" -> <<"s", "i", "g", "m", "a", "_", "a", "b", "s">>
      [] pm = "density" -> <<"d", "e", "n", "s", "i", "t", "y">>
      [] pm = "weight" -> <<"w", "e", "i", "g", "h", "t">>
      [] pm = "Vc" -> <<"V", "c">>
      [] pm = "lattice_a" -> <<"l", "a", "t", "t", "i", "c", "e", "_", "a">>
      [] pm = "lattice_b" -> <<"l", "a", "t", "t", "i", "c", "e", "_", "b">>
      [] pm = "lattice_c" -> <<"l", "a", "t", "t", "i", "c", "e", "_", "c">>
      [] pm = "lattice_aa" -> <<"l", "a", "t", "t", "i", "c", "e", "_", "a", "a">>
      [] pm = "lattice_bb" -> <<"l", "a", "t", "t", "i", "c", "e", "_", "b", "b">>
      [] pm = "lattice_cc" -> <<"l", "a", "t", "t", "i", "c", "e", "_", "c", "c">>

\* The value an hkl file of the model gives a field, as written.
WrittenValue(pm) ==
    CASE pm = "sigma_coh" -> <<"5", ".", "5", "5", "1">>
      [] pm = "sigma_inc" -> <<"0", ".", "0", "0", "1">>
      [] pm = "sigma_abs" -> <<"0", ".", "1", "7", "2", "0">>
      [] pm = "density" -> <<"3", ".", "5">>
      [] pm = "weight" -> <<"1", "2", ".", "0", "1">>
      [] pm = "Vc" -> <<"4", "5", ".", "3", "8">>
      [] pm = "lattice_a" -> <<"3", ".", "5", "6", "7">>
      [] pm = "lattice_b" -> <<"3", ".", "5", "6", "8">>
      [] pm = "lattice_c" -> <<"3", ".", "5", "6", "9">>
      [] pm = "lattice_aa" -> <<"9", "0", ".", "0">>
      [] pm = "lattice_bb" -> <<"9", "1", ".", "0">>
      [] pm = "lattice_cc" -> <<"9", "2", ".", "0">>

Whitespace == {" ", "\n"}

Digit(c) ==
    CASE c = "0" -> 0 [] c = "1" -> 1 [] c = "2" -> 2 [] c = "3" -> 3 [] c = "4" -> 4
      [] c = "5" -> 5 [] c = "6" -> 6 [] c = "7" -> 7 [] c = "8" -> 8 [] c = "9" -> 9

Digits == {"0", "1", "2", "3", "4", "5", "6", "7", "8", "9"}

RECURSIVE Concat(_)
Concat(ss) == IF ss = <<>> THEN <<>> ELSE Head(ss) \o Concat(Tail(ss))

\* One line of an hkl file, as cif2hkl writes it ("# name value"), with more
\* blanks and a trailing comment, with no value, or with a value in brackets.
RenderLine(l) ==
    CASE l.style = "plain" -> <<"#", " ">> \o Encode(l.name) \o <<" ">> \o l.value \o <<"\n">>
      [] l.style = "padded" ->
            Encode(l.name) \o <<" ", " ", " ">> \o l.value \o <<" ", " ", " ", "#", " ", "c", "\n">>
      [] l.style = "novalue" -> <<"#", " ">> \o Encode(l.name) \o <<"\n">>
      [] l.style = "bracket" ->
            <<"#", " ">> \o Encode(l.name) \o <<" ", "[">> \o l.value \o <<"]", "\n">>

Render(lines) == Concat([n \in 1..Len(lines) |-> RenderLine(lines[n])])

\* mm.find(sub): the lowest index at or after the current position where sub
\* starts, -1 when there is none. Indices are 0-based.
Find(bytes, sub, from) ==
    LET hits == {p \in from..(Len(bytes) - Len(sub)) :
                    SubSeq(bytes, p + 1, p + Len(sub)) = sub}
    IN  IF hits = {} THEN -1 ELSE CHOOSE p \in hits : \A q \in hits : p <= q

\* mm.readline(): the bytes from position at up to and including the next
\* newline, or up to the end of the file.
ReadLine(bytes, at) ==
    LET ends == {p \in at..(Len(bytes) - 1) : bytes[p + 1] = "\n"}
        last == IF ends = {} THEN Len(bytes) - 1
                ELSE CHOOSE p \in ends : \A q \in ends : p <= q
    IN  SubSeq(bytes, at + 1, last + 1)

\* line.strip().split(): the maximal runs of non-blank bytes.
RECURSIVE SplitFrom(_, _, _, _)
SplitFrom(line, n, word, done) ==
    IF n > Len(line)
    THEN IF word = <<>> THEN done ELSE Append(done, word)
    ELSE IF line[n] \in Whitespace
         THEN SplitFrom(line, n + 1, <<>>, IF word = <<>> THEN done ELSE Append(done, word))
         ELSE SplitFrom(line, n + 1, Append(word, line[n]), done)

Split(line) == SplitFrom(line, 1, <<>>, <<>>)

\* Whether float() accepts the token: digits with at most one point (the
\* tokens of the model hold no sign and no exponent).
IsFloat(tok) ==
    /\ \A n \in 1..Len(tok) : tok[n] \in Digits \cup {"."}
    /\ Cardinality({n \in 1..Len(tok) : tok[n] = "."}) <= 1
    /\ \E n \in 1..Len(tok) : tok[n] \in Digits

RECURSIVE Power10(_)
Power10(n) == IF n = 0 THEN 1 ELSE 10 * Power10(n - 1)

RECURSIVE Number(_)
Number(ds) == IF ds = <<>> THEN 0 ELSE 10 * Number(SubSeq(ds, 1, Len(ds) - 1)) + Digit(ds[Len(ds)])

\* float(tok), in ten-thousandths (the tokens of the model hold at most four
\* decimals).
Float(tok) ==
    LET points == {n \in 1..Len(tok) : tok[n] = "."}
        point == IF points = {} THEN Len(tok) + 1 ELSE CHOOSE n \in points : TRUE
        whole == SubSeq(tok, 1, point - 1)
        frac == SubSeq(tok, point + 1, Len(tok))
    IN  Number(whole) * 10000 + Number(frac) * Power10(4 - Len(frac))

\* The lines of a file: params with positions a and b exchanged, the line of
\* params[missing] left out (missing = 0: none), all written in one style.
FileLines(a, b, missing, style) ==
    LET order == [n \in 1..Len(params) |->
                    IF n = a THEN params[b] ELSE IF n = b THEN params[a] ELSE params[n]]
        kept == SelectSeq(order, LAMBDA pm : missing = 0 \/ pm # params[missing])
    IN  [n \in 1..Len(kept) |->
            [name |-> kept[n], value |-> WrittenValue(kept[n]), style |-> style]]

\* read_hkl(hkl_file) has opened and mapped a file; vals = {}.
HklInit ==
    /\ Configure({<<>>}, {<<>>})
    /\ \E a, b \in 1..Len(params), missing \in 0..Len(params),
          style \in {"plain", "padded", "novalue", "bracket"} :
        /\ a <= b
        /\ layout = FileLines(a, b, missing, style)
        /\ mm = Render(FileLines(a, b, missing, style))
    /\ pos = 0
    /\ pmi = 1
    /\ vals = EmptyMap
    /\ hpc = "loop"
    /\ ret = <<>>
    /\ err = NoError

\* One pass of "for pm in params": mm.seek(mm.find(pm.encode("UTF-8"))), then
\* vals[pm] = float(mm.readline().strip().split()[1]). seek(-1) raises
\* ValueError, a line of one token IndexError, a token that is no number
\* ValueError; none is caught.
ReadParam ==
    /\ hpc = "loop"
    /\ pmi <= Len(params)
    /\ LET pm == params[pmi]
           found == Find(mm, Encode(pm), pos)
           line == ReadLine(mm, found)
           tokens == Split(line)
       IN  IF found = -1
           THEN /\ hpc' = "raised"
                /\ err' = [type |-> "ValueError", msg |-> "seek out of range", names |-> {}]
                /\ UNCHANGED <<pos, pmi, vals>>
           ELSE IF Len(tokens) < 2
           THEN /\ hpc' = "raised"
                /\ err' = [type |-> "IndexError", msg |-> "list index out of range",
                           names |-> {}]
                /\ pos' = found + Len(line)
                /\ UNCHANGED <<pmi, vals>>
           ELSE IF ~IsFloat(tokens[2])
           THEN /\ hpc' = "raised"
                /\ err' = [type |-> "ValueError",
                           msg |-> "could not convert string to float", names |-> {}]
                /\ pos' = found + Len(line)
                /\ UNCHANGED <<pmi, vals>>
           ELSE /\ vals' = Put(vals, pm, Float(tokens[2]))
                /\ pos' = found + Len(line)
                /\ pmi' = pmi + 1
                /\ UNCHANGED <<hpc, err>>
    /\ UNCHANGED <<mm, layout, ret>>
    /\ UNCHANGED sweepVars

\* return vals
ReadHklReturns ==
    /\ hpc = "loop"
    /\ pmi > Len(params)
    /\ hpc' = "returned"
    /\ ret' = <<vals>>
    /\ UNCHANGED <<mm, layout, pos, pmi, vals, err>>
    /\ UNCHANGED sweepVars

HklNext ==
    \/ ReadParam
    \/ ReadHklReturns

SpecHkl == HklInit /\ [][HklNext]_vars

\* The fields whose own line the file holds.
Present == {layout[n].name : n \in 1..Len(layout)}

WellFormed == \A n \in 1..Len(layout) : layout[n].style \in {"plain", "padded"}

\* The value written on the own line of field pm.
OwnValue(pm) ==
    Float((CHOOSE l \in {layout[n] : n \in 1..Len(layout)} : l.name = pm).value)

HklOver == hpc \in {"returned", "raised"}

\* C3: for a file that holds the line "<name> <value>" of each of the twelve
\* fields, in whatever order, read_hkl returns a mapping with exactly the
\* twelve keys, each with the value of its own line.
C3_AllFieldsRead ==
    (HklOver /\ WellFormed /\ Present = ParamSet) =>
        /\ hpc = "returned"
        /\ DOMAIN ret[1] = ParamSet
        /\ \A pm \in ParamSet : ret[1][pm] = OwnValue(pm)

\* C4: for a file that lacks the line of one of the twelve fields, read_hkl
\* raises an error that names the missing field, and returns no mapping.
C4_MissingFieldNamed ==
    (HklOver /\ WellFormed /\ Cardinality(ParamSet \ Present) = 1) =>
        /\ hpc = "raised"
        /\ ret = <<>>
        /\ (ParamSet \ Present) \subseteq err.names


\* ------------------------------------------------------------- the sweep's properties

\* The calls of a whole execute-mode sweep: outer loop over lambda0s, inner
\* loop over crystal_hkls.
WavelengthMajor ==
    [k \in 1..(Len(lambda0s) * Len(crystal_hkls)) |->
        [fn |-> "run_on_sample",
         lambda0 |-> lambda0s[((k - 1) \div Len(crystal_hkls)) + 1],
         crys |-> crystal_hkls[((k - 1) % Len(crystal_hkls)) + 1]]]

Finished == pc \in {"done", "plotted"}

\* The run has shown the traceback of a failed run_on_sample or load_data call.
FailedCall ==
    \E k \in 1..Len(output) :
        /\ output[k].kind = "traceback"
        /\ output[k].raised_by \in {"run_on_sample", "load_data"}

\* The Sweep Point the loops stand at.
CurrentPoint == <<lambda0s[i], crystal_hkls[j]>>

\* C1: in execute mode the calls of run_on_sample made so far are always the
\* first calls of the wavelength-major enumeration of lambda0s x crystal_hkls,
\* at most one call is open and only while the loop waits for it, and a sweep
\* that ends without a failure has made exactly that enumeration, each pair
\* once: (1.0,a), (1.0,b), (1.5,a), (1.5,b) for lambda0s = (1.0, 1.5) and
\* samples a, b.
C1_WavelengthMajorOrder ==
    run_simulation =>
        /\ Len(calls) <= Len(WavelengthMajor)
        /\ \A k \in 1..Len(calls) : calls[k] = WavelengthMajor[k]
        /\ returned <= Len(calls)
        /\ Len(calls) <= returned + 1
        /\ (Len(calls) = returned + 1) <=> (pc = "call")
        /\ Finished => Len(calls) = Len(lambda0s) * Len(crystal_hkls)
        /\ (Finished /\ lambda0s = <<1000, 1500>> /\ crystal_hkls = <<<<"a">>, <<"b">>>>)
            => calls = << [fn |-> "run_on_sample", lambda0 |-> 1000, crys |-> <<"a">>],
                          [fn |-> "run_on_sample", lambda0 |-> 1000, crys |-> <<"b">>],
                          [fn |-> "run_on_sample", lambda0 |-> 1500, crys |-> <<"a">>],
                          [fn |-> "run_on_sample", lambda0 |-> 1500, crys |-> <<"b">>] >>

\* An execute-mode sweep of two wavelengths and two samples has ended after
\* four calls.
C1_Witness ==
    /\ run_simulation
    /\ pc = "done"
    /\ lambda0s = <<1000, 1500>>
    /\ crystal_hkls = <<<<"a">>, <<"b">>>>
    /\ Len(calls) = 4

\* C2: when the sweep cell (execute or replay) has ended without an error,
\* results holds a dataset for exactly the configured (wavelength, sample)
\* pairs, in execute mode the one this run produced and in replay mode the one
\* in the pair's folder, and plot_diffr never misses a key.
C2_ResultsComplete ==
    /\ Finished =>
        /\ Keys(results) = SweepPoints
        /\ DOMAIN results = {lambda0s[a] : a \in 1..Len(lambda0s)}
        /\ \A p \in Keys(results) :
            IF run_simulation
            THEN results[p[1]][p[2]].run = runs
            ELSE results[p[1]][p[2]] = disk[ReplayFolder(p[1], p[2], postfix)]
    /\ \A k \in 1..Len(output) :
        output[k].kind = "traceback" => output[k].raised_by # "plot_diffr"

\* A replay of four Sweep Points has been plotted.
C2_Witness ==
    /\ ~run_simulation
    /\ pc = "plotted"
    /\ Cardinality(SweepPoints) = 4
    /\ Cardinality(Keys(results)) = 4

\* C5: any two distinct Sweep Points of the configured product get distinct
\* output folders.
C5_FoldersDistinct ==
    \A p, q \in SweepPoints :
        p # q => /\ FolderName(p[1], p[2]) # FolderName(q[1], q[2])
                 /\ ReplayFolder(p[1], p[2], postfix) # ReplayFolder(q[1], q[2], postfix)

\* C6: in replay mode run_on_sample is never called, and when the folder of a
\* Sweep Point does not exist the run fails with an error that shows that
\* folder path and stores nothing for the point.
C6_ReplayMissingFolder ==
    ~run_simulation =>
        /\ \A k \in 1..Len(calls) : calls[k].fn = "load_data"
        /\ FailedCall =>
            /\ ReplayFolder(lambda0s[i], crystal_hkls[j], postfix) \notin DOMAIN disk
            /\ ReplayFolder(lambda0s[i], crystal_hkls[j], postfix)
                    \in output[Len(output)].shows
            /\ CurrentPoint \notin Keys(results)

\* C7: once a run_on_sample or load_data call has failed, the run is over: the
\* traceback is the last thing shown, the failed call is the last call made,
\* the calls up to it are the wavelength-major enumeration up to the failed
\* point (so neither a retry nor a later point), and results has no entry for
\* the failed point.
C7_FailFast ==
    FailedCall =>
        /\ pc = "error"
        /\ output[Len(output)].kind = "traceback"
        /\ \A k \in 1..(Len(output) - 1) : output[k].kind \notin {"traceback", "plot"}
        /\ returned = Len(calls)
        /\ Len(calls) = (i - 1) * Len(crystal_hkls) + j
        /\ \A k \in 1..Len(calls) :
            /\ calls[k].lambda0 = WavelengthMajor[k].lambda0
            /\ calls[k].crys = WavelengthMajor[k].crys
        /\ CurrentPoint \notin Keys(results)

\* An execute-mode sweep of four points has failed at its second.
C7_Witness ==
    /\ FailedCall
    /\ run_simulation
    /\ Len(WavelengthMajor) = 4
    /\ Len(calls) = 2
    /\ Cardinality(Keys(results)) = 1

\* C8: a replay with an empty postfix that follows a completed execute-mode
\* sweep of the same configuration finds every folder, and ends with the keys
\* the execute-mode sweep ended with.
C8_ReplayRecoversKeys ==
    (~run_simulation /\ postfix = NoSuffix /\ execKeys # <<>>) =>
        /\ \A k \in 1..Len(output) : output[k].kind # "traceback"
        /\ Finished => Keys(results) = execKeys[1]

\* A replay of four Sweep Points has ended after a completed execute run.
C8_Witness ==
    /\ ~run_simulation
    /\ postfix = NoSuffix
    /\ execKeys # <<>>
    /\ pc = "done"
    /\ Cardinality(Keys(results)) = 4
    /\ Cardinality(execKeys[1]) = 4

\* C9: when a Sweep Point fails, the last line shown before the traceback
\* names the sample and the wavelength that were in progress, and nothing is
\* plotted.
C9_FailureIdentifiesPoint ==
    FailedCall =>
        /\ output[Len(output)].kind = "traceback"
        /\ \A k \in 1..Len(output) : output[k].kind # "plot"
        /\ Len(output) >= 2
        /\ LET line == output[Len(output) - 1]
           IN  /\ line.kind = "running"
               /\ line.crys = crystal_hkls[j]
               /\ line.wl = Format2f(lambda0s[i])

\* No two configured wavelengths share their .1f format.
CollisionFree ==
    \A a, b \in 1..Len(lambda0s) :
        a # b => Format1f(lambda0s[a]) # Format1f(lambda0s[b])

\* No configured sample identifier is another one followed by "_<number>".
Regular ==
    \A a, b \in 1..Len(crystal_hkls) :
        LET s == crystal_hkls[a]
            t == crystal_hkls[b]
        IN  ~(Len(t) > Len(s) /\ SubSeq(t, 1, Len(s)) = s)

\* The position in written[foldername] of the dataset that sits in
\* foldername + postfix: 1 for the folder itself, n + 2 for its suffix "_n".
Nth == IF postfix = NoSuffix THEN 1 ELSE postfix + 2

====
